---- MODULE Spec2Model ----
(***************************************************************************)
(* origin-ca-issuer: the CertificateRequest reconciler, the provisioner    *)
(* that builds signing requests, and the issuer condition helpers.         *)
(*                                                                         *)
(* The object store (requests, issuers, secrets), the clock and the remote *)
(* signer are the environment.  One Reconcile step is one whole invocation *)
(* of CertificateRequestController.Reconcile on a freshly loaded request.  *)
(***************************************************************************)
EXTENDS Integers, Sequences, FiniteSets, TLC

VARIABLES
    store,      \* request name -> stored CertificateRequest (spec and status)
    issuers,    \* issuer key -> stored issuer object, or NoObject
    secrets,    \* <<namespace, name>> -> set of data keys, or NoObject
    now,        \* the clock
    issued,     \* the requests the signer has issued a certificate for
    checkApproved,  \* CertificateRequestController.CheckApprovedCondition
    last        \* what the most recent step did, when it was a Reconcile

vars == <<store, issuers, secrets, now, issued, checkApproved, last>>

-----------------------------------------------------------------------------
(* Bounds of the model *)

MaxClock == 1

\* The requested durations, in days: from DaysBelow under zero to MaxDays.
MaxDays == 5500

DaysBelow == 20

\* The requested durations, in hours: from HoursBelow under zero to MaxHours.
MaxHours == 1500

HoursBelow == 50

-----------------------------------------------------------------------------
(* Program constants *)

originDBWriteErrorCode == 1100

DefaultDurationInternval == 7

allowedValidty == <<7, 30, 90, 365, 730, 1095, 5475>>

OwnGroup == "cert-manager.k8s.cloudflare.com"

ClusterResourceNamespace == "origin-ca-issuer"

RequestNamespace == "default"

NoObject == [absent |-> TRUE]

-----------------------------------------------------------------------------
(* Condition helpers of the request (cert-manager's api/util, as called)   *)

\* Type and Status must match; Reason only when the probe gives one.
CertificateRequestHasCondition(cr, c) ==
    \E i \in 1..Len(cr.conditions) :
        /\ cr.conditions[i].type = c.type
        /\ cr.conditions[i].status = c.status
        /\ (c.reason = "" \/ c.reason = cr.conditions[i].reason)

CertificateRequestIsDenied(cr) ==
    \E i \in 1..Len(cr.conditions) :
        cr.conditions[i].type = "Denied" /\ cr.conditions[i].status = "True"

CertificateRequestIsApproved(cr) ==
    \E i \in 1..Len(cr.conditions) :
        cr.conditions[i].type = "Approved" /\ cr.conditions[i].status = "True"

\* Index of the first condition of the given type, 0 when there is none.
FirstOfType(conds, type) ==
    IF \E i \in 1..Len(conds) : conds[i].type = type
    THEN CHOOSE i \in 1..Len(conds) :
            /\ conds[i].type = type
            /\ \A j \in 1..(i - 1) : conds[j].type # type
    ELSE 0

\* Insert, or replace in place; the transition time is kept when the status
\* is the one already recorded.
SetCertificateRequestCondition(conds, type, status, reason, message, t) ==
    LET i == FirstOfType(conds, type)
        c == [type |-> type, status |-> status, reason |-> reason,
              message |-> message, lastTransitionTime |-> t]
    IN  IF i = 0
        THEN Append(conds, c)
        ELSE [conds EXCEPT ![i] =
                IF conds[i].status = status
                THEN [c EXCEPT !.lastTransitionTime = conds[i].lastTransitionTime]
                ELSE c]

-----------------------------------------------------------------------------
(* Condition helpers of the issuer *)

IssuerStatusHasCondition_TypeOnly(status, c) ==
    \E i \in 1..Len(status) : c.type = status[i].type

IssuerStatusHasCondition(status, c) ==
    \E i \in 1..Len(status) :
        c.type = status[i].type /\ c.status = status[i].status

SetIssuerStatusCondition_AlwaysStamp(ois, conditionType, status, t, reason, message) ==
    LET i == FirstOfType(ois, conditionType)
        c == [type |-> conditionType, status |-> status, reason |-> reason,
              message |-> message, lastTransitionTime |-> t]
    IN  IF i = 0 THEN Append(ois, c) ELSE [ois EXCEPT ![i] = c]

SetIssuerStatusCondition_AlwaysAppend(ois, conditionType, status, t, reason, message) ==
    Append(ois, [type |-> conditionType, status |-> status, reason |-> reason,
                 message |-> message, lastTransitionTime |-> t])

SetIssuerStatusCondition(ois, conditionType, status, t, reason, message) ==
    LET i == FirstOfType(ois, conditionType)
        c == [type |-> conditionType, status |-> status, reason |-> reason,
              message |-> message, lastTransitionTime |-> t]
    IN  IF i = 0
        THEN Append(ois, c)
        ELSE [ois EXCEPT ![i] =
                IF ois[i].status = status
                THEN [c EXCEPT !.lastTransitionTime = ois[i].lastTransitionTime]
                ELSE c]

-----------------------------------------------------------------------------
(* Provisioner *)

Abs(x) == IF x < 0 THEN 0 - x ELSE x

RECURSIVE closestScan_LastOnTies(_, _, _, _, _)
closestScan_LastOnTies(of, valid, i, min, best) ==
    IF i > Len(valid) THEN best
    ELSE LET diff == Abs(valid[i] - of)
         IN  IF min < 0 \/ diff <= min
             THEN closestScan_LastOnTies(of, valid, i + 1, diff, valid[i])
             ELSE closestScan_LastOnTies(of, valid, i + 1, min, best)

\* The scan of closest: best is the candidate so far, min its distance
\* (min < 0 stands for the initial math.MaxFloat64).
RECURSIVE closestScan(_, _, _, _, _)
closestScan(of, valid, i, min, best) ==
    IF i > Len(valid) THEN best
    ELSE LET diff == Abs(valid[i] - of)
         IN  IF min < 0 \/ diff < min
             THEN closestScan(of, valid, i + 1, diff, valid[i])
             ELSE closestScan(of, valid, i + 1, min, best)

closest(of, valid) == closestScan(of, valid, 1, 0 - 1, of)

DaysOf_Rounded(hours) == (hours + 12) \div 24

\* int(hours / 24): the conversion truncates toward zero.
DaysOf(hours) == IF hours >= 0 THEN hours \div 24 ELSE 0 - ((0 - hours) \div 24)

NoDuration == <<>>

Validity(cr) ==
    IF cr.duration = NoDuration
    THEN DefaultDurationInternval
    ELSE closest(DaysOf(cr.duration[1]), allowedValidty)

WireType(reqType) ==
    CASE reqType = "OriginECC" -> "origin-ecc"
      [] reqType = "OriginRSA" -> "origin-rsa"
      [] OTHER -> ""

Sign_DecodeIgnored(cr, reqType, answer) ==
    LET req == [validity |-> Validity(cr), type |-> WireType(reqType), csr |-> cr.name]
    IN  IF answer.kind = "ok"
        THEN [calls |-> 1, request |-> <<req>>, err |-> "nil", code |-> 0,
              pem |-> answer.cert]
        ELSE [calls |-> 1, request |-> <<req>>, err |-> answer.kind,
              code |-> answer.code, pem |-> ""]

\* Provisioner.Sign: the result for a request, an issuer request type and
\* the answer the remote signer gives when it is asked.
Sign(cr, reqType, answer) ==
    IF ~cr.csrOK
    THEN [calls |-> 0, request |-> <<>>, err |-> "decode", code |-> 0, pem |-> ""]
    ELSE LET req == [validity |-> Validity(cr), type |-> WireType(reqType),
                     csr |-> cr.name]
         IN  IF answer.kind = "ok"
             THEN [calls |-> 1, request |-> <<req>>, err |-> "nil", code |-> 0,
                   pem |-> answer.cert]
             ELSE [calls |-> 1, request |-> <<req>>, err |-> answer.kind,
                   code |-> answer.code, pem |-> ""]

-----------------------------------------------------------------------------
(* CertificateRequestController *)

ReadyTrue == [type |-> "Ready", status |-> "True", reason |-> ""]

ReadyFailed == [type |-> "Ready", status |-> "False", reason |-> "Failed"]

ReadyDenied == [type |-> "Ready", status |-> "False", reason |-> "Denied"]

IssuerReady == [type |-> "Ready", status |-> "True"]

setStatus_ConditionDropped(cr, status, reason, message, t, upd) ==
    [cr |-> cr, err |-> IF upd = "ok" THEN "nil" ELSE "update"]

\* setStatus: the Ready condition is set on the loaded copy and the status is
\* sent to the store; upd is the answer of the store.
setStatus(cr, status, reason, message, t, upd) ==
    [cr  |-> [cr EXCEPT !.conditions =
                SetCertificateRequestCondition(@, "Ready", status, reason, message, t)],
     err |-> IF upd = "ok" THEN "nil" ELSE "update"]

IssuerKey_DefaultCluster(cr) ==
    CASE cr.kind = "OriginIssuer" -> <<<<"OriginIssuer", cr.namespace, cr.issuerName>>>>
      [] OTHER -> <<<<"ClusterOriginIssuer", "", cr.issuerName>>>>

\* The issuer switch of Reconcile: which object is read, and what it yields.
IssuerKey(cr) ==
    CASE cr.kind = "OriginIssuer" -> <<<<"OriginIssuer", cr.namespace, cr.issuerName>>>>
      [] cr.kind = "ClusterOriginIssuer" -> <<<<"ClusterOriginIssuer", "", cr.issuerName>>>>
      [] OTHER -> <<>>

SecretNamespace_OwnNamespace(cr) == cr.namespace

SecretNamespace(cr) ==
    IF cr.kind = "OriginIssuer" THEN cr.namespace ELSE ClusterResourceNamespace

ResolveIssuer_UnknownKindPending(cr, iss) ==
    CASE IssuerKey(cr) = <<>> ->
            [err |-> "unknown-kind", reason |-> "Pending", message |-> "Unknown issuer kind"]
      [] IssuerKey(cr) # <<>> /\ iss[IssuerKey(cr)[1]] = NoObject ->
            [err |-> "get-issuer", reason |-> "Pending",
             message |-> "Failed to retrieve OriginIssuer resource"]
      [] IssuerKey(cr) # <<>> /\ iss[IssuerKey(cr)[1]] # NoObject
            /\ ~IssuerStatusHasCondition(iss[IssuerKey(cr)[1]].conditions, IssuerReady) ->
            [err |-> "not-ready", reason |-> "Pending",
             message |-> "OriginIssuer is not Ready"]
      [] OTHER -> [err |-> "nil", reason |-> "", message |-> ""]

\* reason and message of the status set when the issuer does not resolve,
\* "" when it resolves.
ResolveIssuer(cr, iss) ==
    CASE IssuerKey(cr) = <<>> ->
            [err |-> "unknown-kind", reason |-> "Failed", message |-> "Unknown issuer kind"]
      [] IssuerKey(cr) # <<>> /\ iss[IssuerKey(cr)[1]] = NoObject ->
            [err |-> "get-issuer", reason |-> "Pending",
             message |-> "Failed to retrieve OriginIssuer resource"]
      [] IssuerKey(cr) # <<>> /\ iss[IssuerKey(cr)[1]] # NoObject
            /\ ~IssuerStatusHasCondition(iss[IssuerKey(cr)[1]].conditions, IssuerReady) ->
            [err |-> "not-ready", reason |-> "Pending",
             message |-> "OriginIssuer is not Ready"]
      [] OTHER -> [err |-> "nil", reason |-> "", message |-> ""]

ResolveSecret_Failed(nn, key, sec, readErr) ==
    CASE readErr -> [err |-> "secret-error", reason |-> "Error"]
      [] ~readErr /\ sec[nn] = NoObject -> [err |-> "secret-notfound", reason |-> "Failed"]
      [] ~readErr /\ sec[nn] # NoObject /\ key \notin sec[nn].keys ->
            [err |-> "missing-key", reason |-> "NotFound"]
      [] OTHER -> [err |-> "nil", reason |-> ""]

\* The secret read and the key lookup.
ResolveSecret(nn, key, sec, readErr) ==
    CASE readErr -> [err |-> "secret-error", reason |-> "Error"]
      [] ~readErr /\ sec[nn] = NoObject -> [err |-> "secret-notfound", reason |-> "NotFound"]
      [] ~readErr /\ sec[nn] # NoObject /\ key \notin sec[nn].keys ->
            [err |-> "missing-key", reason |-> "NotFound"]
      [] OTHER -> [err |-> "nil", reason |-> ""]

\* What an invocation reports: the step of the decision order at which it
\* returned, the loaded copy as it stands at the return, whether a status
\* update was sent, the error returned, and what was read and asked.
Out(step, cr, wrote, err, issRead, secRead, sign) ==
    [step |-> step, cr |-> cr, wrote |-> wrote, err |-> err,
     issuerRead |-> issRead, secretRead |-> secRead,
     signerCalls |-> sign.calls, signRequest |-> sign.request]

NoSign == [calls |-> 0, request |-> <<>>]

NoOp(step, cr) == Out(step, cr, FALSE, "nil", <<>>, <<>>, NoSign)

IsDBWriteError_NotUnwrapped(sg) == FALSE

IsDBWriteError_AnyCode(sg) == sg.err = "api"

\* The signing error carries a structured API error with the database write
\* failure code: the request is left as it is, to be tried again.
IsDBWriteError(sg) == sg.err = "api" /\ sg.code = originDBWriteErrorCode

ReconcileIssue_FactoryFailureRecorded(cr, check, iss, sec, t, inp) ==
    LET res  == ResolveIssuer(cr, iss)
        ik   == IssuerKey(cr)
        spec == iss[ik[1]]
        nn   == <<SecretNamespace(cr), spec.secretName>>
        sres == ResolveSecret(nn, spec.secretKey, sec, inp.secretErr)
        sg   == Sign(cr, spec.requestType, inp.answer)
    IN  IF res.err # "nil"
        THEN Out(9, setStatus(cr, "False", res.reason, res.message, t, inp.upd).cr,
                 TRUE, res.err, ik, <<>>, NoSign)
        ELSE IF sres.err # "nil"
        THEN Out(10, setStatus(cr, "False", sres.reason,
                               "Failed to retrieve auth secret", t, inp.upd).cr,
                 TRUE, sres.err, ik, <<nn>>, NoSign)
        ELSE IF inp.factory # "ok"
        THEN Out(11, setStatus(cr, "False", "Failed",
                               "Failed to create API client", t, inp.upd).cr,
                 TRUE, "factory", ik, <<nn>>, NoSign)
        ELSE IF IsDBWriteError(sg)
        THEN Out(11, cr, FALSE, "api-1100", ik, <<nn>>, sg)
        ELSE IF sg.err # "nil"
        THEN Out(11, setStatus(cr, "False", "Failed",
                               "Failed to sign certificate request", t, inp.upd).cr,
                 TRUE, sg.err, ik, <<nn>>, sg)
        ELSE Out(12, setStatus([cr EXCEPT !.certificate = sg.pem], "True", "Issued",
                               "Certificate issued", t, inp.upd).cr,
                 TRUE, "nil", ik, <<nn>>, sg)

\* Reconcile from the issuer switch on (the request is ours, not terminal,
\* not denied, approved if that is asked for, without certificate, not CA).
ReconcileIssue(cr, check, iss, sec, t, inp) ==
    LET res  == ResolveIssuer(cr, iss)
        ik   == IssuerKey(cr)
        spec == iss[ik[1]]
        nn   == <<SecretNamespace(cr), spec.secretName>>
        sres == ResolveSecret(nn, spec.secretKey, sec, inp.secretErr)
        sg   == Sign(cr, spec.requestType, inp.answer)
    IN  IF res.err # "nil"
        THEN Out(9, setStatus(cr, "False", res.reason, res.message, t, inp.upd).cr,
                 TRUE, res.err, ik, <<>>, NoSign)
        ELSE IF sres.err # "nil"
        THEN Out(10, setStatus(cr, "False", sres.reason,
                               "Failed to retrieve auth secret", t, inp.upd).cr,
                 TRUE, sres.err, ik, <<nn>>, NoSign)
        ELSE IF inp.factory # "ok"
        THEN Out(11, cr, FALSE, "factory", ik, <<nn>>, NoSign)
        ELSE IF IsDBWriteError(sg)
        THEN Out(11, cr, FALSE, "api-1100", ik, <<nn>>, sg)
        ELSE IF sg.err # "nil"
        THEN Out(11, setStatus(cr, "False", "Failed",
                               "Failed to sign certificate request", t, inp.upd).cr,
                 TRUE, sg.err, ik, <<nn>>, sg)
        ELSE Out(12, setStatus([cr EXCEPT !.certificate = sg.pem], "True", "Issued",
                               "Certificate issued", t, inp.upd).cr,
                 TRUE, "nil", ik, <<nn>>, sg)

\* Variants of the definitions below, each with one slip in it; the
\* properties are checked to tell them from the definitions they vary.
AlreadyReady_ByCertificate(cr) == cr.certificate # ""

AlreadyFailed_AnyReason(cr) ==
    CertificateRequestHasCondition(cr, [type |-> "Ready", status |-> "False",
                                        reason |-> ""])

NotApproved_FlagInverted(cr, check) == ~check /\ ~CertificateRequestIsApproved(cr)

HasCertificate_Unchecked(cr) == FALSE

ReconcileDenied_NoStamp(cr, t, inp) ==
    LET st == setStatus(cr, "False", "Denied",
                  "The CertificateRequest was denied by an approval controller",
                  t, inp.upd)
    IN  Out(5, st.cr, TRUE, st.err, <<>>, <<>>, NoSign)

ReconcileDenied_ErrorDropped(cr, t, inp) ==
    LET stamped == [cr EXCEPT !.failureTime = IF @ = <<>> THEN <<t>> ELSE @]
        st == setStatus(stamped, "False", "Denied",
                  "The CertificateRequest was denied by an approval controller",
                  t, inp.upd)
    IN  Out(5, st.cr, TRUE, "nil", <<>>, <<>>, NoSign)

NotOurs_EmptyIsForeign(cr) == cr.group # OwnGroup

\* The early returns of Reconcile.
NotOurs(cr) == cr.group # "" /\ cr.group # OwnGroup

AlreadyReady(cr) == CertificateRequestHasCondition(cr, ReadyTrue)

AlreadyFailed(cr) == CertificateRequestHasCondition(cr, ReadyFailed)

AlreadyDenied(cr) == CertificateRequestHasCondition(cr, ReadyDenied)

NotApproved(cr, check) == check /\ ~CertificateRequestIsApproved(cr)

HasCertificate(cr) == cr.certificate # ""

\* A denied request: the failure time is stamped if it is not yet, Ready is
\* set to Denied, and the result of the status update is returned.
ReconcileDenied(cr, t, inp) ==
    LET stamped == [cr EXCEPT !.failureTime = IF @ = <<>> THEN <<t>> ELSE @]
        st == setStatus(stamped, "False", "Denied",
                  "The CertificateRequest was denied by an approval controller",
                  t, inp.upd)
    IN  Out(5, st.cr, TRUE, st.err, <<>>, <<>>, NoSign)

\* Reconcile, from the loaded request cr, the controller's flag, the objects
\* of the store, the clock and the answers of the collaborators.
ReconcileOut(cr, check, iss, sec, t, inp) ==
    IF NotOurs(cr) THEN NoOp(1, cr)
    ELSE IF AlreadyReady(cr) THEN NoOp(2, cr)
    ELSE IF AlreadyFailed(cr) THEN NoOp(3, cr)
    ELSE IF AlreadyDenied(cr) THEN NoOp(4, cr)
    ELSE IF CertificateRequestIsDenied(cr) THEN ReconcileDenied(cr, t, inp)
    ELSE IF NotApproved(cr, check) THEN NoOp(6, cr)
    ELSE IF HasCertificate(cr) THEN NoOp(7, cr)
    ELSE IF cr.isCA THEN NoOp(8, cr)
    ELSE ReconcileIssue(cr, check, iss, sec, t, inp)

-----------------------------------------------------------------------------
(* The objects of the store and the answers of the collaborators *)

IssuerNames == {"foobar"}

SecretName == "service-key-issuer"

SecretKey == "key"

IssuerKeys ==
    {<<"OriginIssuer", RequestNamespace, n>> : n \in IssuerNames}
        \cup {<<"ClusterOriginIssuer", "", n>> : n \in IssuerNames}

SecretKeys == {<<ns, SecretName>> : ns \in {RequestNamespace, ClusterResourceNamespace}}

\* The request type an issuer is created with.
RequestTypeOf(k) == IF k[1] = "OriginIssuer" THEN "OriginECC" ELSE "OriginRSA"

\* The objects some request refers to: the issuer named by its reference and
\* the secret that issuer's credential is read from.  No other object is
\* ever read.
Referenced(k) ==
    \E r \in DOMAIN store :
        IssuerKey(store[r]) = <<k>> \/ (IssuerKey(store[r]) # <<>> /\ k = <<SecretNamespace(store[r]), SecretName>>)

Certs == {"bogus", "bogus2"}

\* What the remote signer answers: a certificate, a structured API error
\* (the database write failure, or another code), or a transport error.
Answers ==
    {[kind |-> "ok", cert |-> c, code |-> 0] : c \in Certs}
        \cup {[kind |-> "api", cert |-> "", code |-> originDBWriteErrorCode],
              [kind |-> "api", cert |-> "", code |-> 1000],
              [kind |-> "transport", cert |-> "", code |-> 0]}

\* The answers one invocation may get: of the store to a status update, of
\* the signer, of the credential factory, and whether the secret read fails
\* with an error other than not-found.  A failing factory or secret read
\* ends the invocation before the signer is asked.
Inputs ==
    [upd : {"ok", "fail"}, answer : Answers, factory : {"ok"}, secretErr : {FALSE}]
        \cup [upd : {"ok", "fail"}, answer : {[kind |-> "transport", cert |-> "", code |-> 0]},
              factory : {"ok"}, secretErr : {TRUE}]
        \cup [upd : {"ok"}, answer : {[kind |-> "transport", cert |-> "", code |-> 0]},
              factory : {"fail"}, secretErr : {FALSE}]

\* A request as created: no status yet.
NewRequest(name, group, kind, isCA, csrOK, duration) ==
    [name |-> name, namespace |-> RequestNamespace, group |-> group, kind |-> kind,
     issuerName |-> "foobar", isCA |-> isCA, csrOK |-> csrOK, duration |-> duration,
     conditions |-> <<>>, failureTime |-> <<>>, certificate |-> ""]

NewRequests(name) ==
    {NewRequest(name, g, k, ca, ok, NoDuration) :
        g \in {"", OwnGroup, "cert-manager.io"},
        k \in {"OriginIssuer", "ClusterOriginIssuer", "Issuer"},
        ca \in BOOLEAN, ok \in BOOLEAN}

NoCall == [called |-> FALSE]

Init ==
    /\ store \in [{"foobar"} -> NewRequests("foobar")]
    /\ issuers = [k \in IssuerKeys |-> NoObject]
    /\ secrets = [k \in SecretKeys |-> NoObject]
    /\ now = 0
    /\ issued = {}
    /\ checkApproved \in BOOLEAN
    /\ last = NoCall

-----------------------------------------------------------------------------
(* Steps *)

ReconcileWith_WritesAll(r, inp) ==
      \E out \in {ReconcileOut(store[r], checkApproved, issuers, secrets, now, inp)} :
        LET signed == out.signerCalls = 1 /\ inp.answer.kind = "ok"
            persisted == out.wrote /\ inp.upd = "ok"
        IN  /\ store' = IF persisted
                         THEN [x \in DOMAIN store |->
                                [store[x] EXCEPT !.conditions = out.cr.conditions,
                                                 !.certificate = out.cr.certificate]]
                         ELSE store
            /\ issued' = IF signed THEN issued \cup {r} ELSE issued
            /\ last' = [called |-> TRUE, req |-> r, pre |-> store[r],
                        post |-> out.cr, step |-> out.step, wrote |-> out.wrote,
                        persisted |-> persisted, err |-> out.err,
                        issuerRead |-> out.issuerRead, secretRead |-> out.secretRead,
                        signerCalls |-> out.signerCalls,
                        signRequest |-> out.signRequest,
                        answer |-> IF out.signerCalls = 1 THEN <<inp.answer>> ELSE <<>>,
                        signedAgain |-> signed /\ r \in issued]
            /\ UNCHANGED <<issuers, secrets, now, checkApproved>>

\* One invocation of Reconcile for request r, on the stored object, with the
\* answers inp of the collaborators.
ReconcileWith(r, inp) ==
      \E out \in {ReconcileOut(store[r], checkApproved, issuers, secrets, now, inp)} :
        LET signed == out.signerCalls = 1 /\ inp.answer.kind = "ok"
            persisted == out.wrote /\ inp.upd = "ok"
        IN  /\ store' = IF persisted THEN [store EXCEPT ![r] = out.cr] ELSE store
            /\ issued' = IF signed THEN issued \cup {r} ELSE issued
            /\ last' = [called |-> TRUE, req |-> r, pre |-> store[r],
                        post |-> out.cr, step |-> out.step, wrote |-> out.wrote,
                        persisted |-> persisted, err |-> out.err,
                        issuerRead |-> out.issuerRead, secretRead |-> out.secretRead,
                        signerCalls |-> out.signerCalls,
                        signRequest |-> out.signRequest,
                        answer |-> IF out.signerCalls = 1 THEN <<inp.answer>> ELSE <<>>,
                        signedAgain |-> signed /\ r \in issued]
            /\ UNCHANGED <<issuers, secrets, now, checkApproved>>

Reconcile(r) == \E inp \in Inputs : ReconcileWith(r, inp)

Tick ==
    /\ now < MaxClock
    /\ now' = now + 1
    /\ last' = NoCall
    /\ UNCHANGED <<store, issuers, secrets, issued, checkApproved>>

\* The approval controller: a request is approved or denied, once.  Reconcile
\* reads type and status of that condition only; its time is recorded as 0.
Decide(r, type) ==
    /\ ~CertificateRequestIsApproved(store[r])
    /\ ~CertificateRequestIsDenied(store[r])
    /\ store' = [store EXCEPT ![r].conditions =
                    Append(@, [type |-> type, status |-> "True",
                               reason |-> "cert-manager.io", message |-> "",
                               lastTransitionTime |-> 0])]
    /\ last' = NoCall
    /\ UNCHANGED <<issuers, secrets, now, issued, checkApproved>>

Approve(r) == Decide(r, "Approved")

Deny(r) == Decide(r, "Denied")

\* The issuer objects: created, given a Ready status by their controller,
\* deleted.  Reconcile reads type and status of the issuer's conditions only;
\* the transition time is recorded as 0.
CreateIssuer(k) ==
    /\ issuers[k] = NoObject
    /\ Referenced(k)
    /\ issuers' = [issuers EXCEPT ![k] =
                        [conditions |-> <<>>, secretName |-> SecretName,
                         secretKey |-> SecretKey, requestType |-> RequestTypeOf(k)]]
    /\ last' = NoCall
    /\ UNCHANGED <<store, secrets, now, issued, checkApproved>>

IssuerStatus(k) ==
    /\ issuers[k] # NoObject
    /\ \E st \in {<<"True", "Verified">>, <<"False", "NotFound">>} :
        /\ ~IssuerStatusHasCondition(issuers[k].conditions,
                                     [type |-> "Ready", status |-> st[1]])
        /\ issuers' = [issuers EXCEPT ![k].conditions =
                        SetIssuerStatusCondition(@, "Ready", st[1], 0, st[2], "")]
    /\ last' = NoCall
    /\ UNCHANGED <<store, secrets, now, issued, checkApproved>>

DeleteIssuer(k) ==
    /\ issuers[k] # NoObject
    /\ issuers' = [issuers EXCEPT ![k] = NoObject]
    /\ last' = NoCall
    /\ UNCHANGED <<store, secrets, now, issued, checkApproved>>

\* The secrets: written with or without the key, deleted.
PutSecret(k) ==
    /\ Referenced(k)
    /\ \E ks \in {{}, {SecretKey}} :
        /\ secrets[k] # [keys |-> ks]
        /\ secrets' = [secrets EXCEPT ![k] = [keys |-> ks]]
    /\ last' = NoCall
    /\ UNCHANGED <<store, issuers, now, issued, checkApproved>>

DeleteSecret(k) ==
    /\ secrets[k] # NoObject
    /\ secrets' = [secrets EXCEPT ![k] = NoObject]
    /\ last' = NoCall
    /\ UNCHANGED <<store, issuers, now, issued, checkApproved>>

Next ==
    \/ \E r \in DOMAIN store : Reconcile(r)
    \/ Tick
    \/ \E r \in DOMAIN store : Approve(r)
    \/ \E r \in DOMAIN store : Deny(r)
    \/ \E k \in IssuerKeys : CreateIssuer(k)
    \/ \E k \in IssuerKeys : IssuerStatus(k)
    \/ \E k \in IssuerKeys : DeleteIssuer(k)
    \/ \E k \in SecretKeys : PutSecret(k)
    \/ \E k \in SecretKeys : DeleteSecret(k)

Spec == Init /\ [][Next]_vars

-----------------------------------------------------------------------------
(* Reconcile on any stored object.  The store may hold a request with any  *)
(* status (written by an earlier run of the controller or by anyone else   *)
(* with access to the status), so here the request starts with any of a    *)
(* set of statuses, the issuer and secret it refers to are there or not,   *)
(* and the steps are the invocations of Reconcile and the clock.           *)

Cond(type, status, reason) ==
    [type |-> type, status |-> status, reason |-> reason, message |-> "",
     lastTransitionTime |-> 0]

AnyConditions ==
    {a \o b :
        a \in {<<>>, <<Cond("Approved", "True", "cert-manager.io")>>,
                <<Cond("Denied", "True", "cert-manager.io")>>},
        b \in {<<>>, <<Cond("Ready", "True", "Issued")>>,
                <<Cond("Ready", "False", "Failed")>>,
                <<Cond("Ready", "False", "Denied")>>,
                <<Cond("Ready", "False", "Pending")>>}}

AnyRequests(name) ==
    {[q EXCEPT !.conditions = c, !.failureTime = f, !.certificate = p] :
        q \in NewRequests(name), c \in AnyConditions, f \in {<<>>, <<0>>},
        p \in {"", "bogus"}}

ReadyIssuer(k) ==
    [conditions |-> <<Cond("Ready", "True", "Verified")>>, secretName |-> SecretName,
     secretKey |-> SecretKey, requestType |-> RequestTypeOf(k)]

InitAny ==
    /\ store \in [{"foobar"} -> AnyRequests("foobar")]
    /\ \E up \in BOOLEAN :
        /\ issuers = [k \in IssuerKeys |->
                        IF up /\ Referenced(k) THEN ReadyIssuer(k) ELSE NoObject]
        /\ secrets = [k \in SecretKeys |->
                        IF up /\ Referenced(k) THEN [keys |-> {SecretKey}] ELSE NoObject]
    /\ now = 0
    /\ issued = {}
    /\ checkApproved \in BOOLEAN
    /\ last = NoCall

NextAny ==
    \/ \E r \in DOMAIN store : Reconcile(r)
    \/ Tick

SpecAny == InitAny /\ [][NextAny]_vars

-----------------------------------------------------------------------------
(* Reconcile under redelivery.  The request is approved, not denied and not *)
(* a CA request, its issuer is ready, the secret holds the key and the      *)
(* signer answers with a certificate; a status update may fail.  The        *)
(* delivery layer invokes Reconcile for the request once, and again after   *)
(* every invocation that returned an error.                                  *)

RequestNames == {"foobar"}

LiveConditions ==
    {<<Cond("Approved", "True", "cert-manager.io")>> \o b :
        b \in {<<>>, <<Cond("Ready", "False", "Pending")>>,
                <<Cond("Ready", "False", "NotFound")>>}}

LiveRequests(name) ==
    {[NewRequest(name, g, k, FALSE, TRUE, NoDuration) EXCEPT !.conditions = c] :
        g \in {"", OwnGroup}, k \in {"OriginIssuer", "ClusterOriginIssuer"},
        c \in LiveConditions}

LiveInputs ==
    [upd : {"ok", "fail"}, answer : {[kind |-> "ok", cert |-> "bogus", code |-> 0]},
     factory : {"ok"}, secretErr : {FALSE}]

InitLive ==
    /\ store \in [RequestNames -> LiveRequests("foobar")]
    /\ issuers = [k \in IssuerKeys |-> IF Referenced(k) THEN ReadyIssuer(k) ELSE NoObject]
    /\ secrets = [k \in SecretKeys |->
                    IF Referenced(k) THEN [keys |-> {SecretKey}] ELSE NoObject]
    /\ now = 0
    /\ issued = {}
    /\ checkApproved \in BOOLEAN
    /\ last = NoCall

\* An invocation for r is due: none has been made yet, or the last one
\* returned an error.
Due(r) == IF last.called THEN last.req = r /\ last.err # "nil" ELSE TRUE

Deliver(r, inp) == Due(r) /\ ReconcileWith(r, inp)

TickLive ==
    /\ now < MaxClock
    /\ now' = now + 1
    /\ UNCHANGED <<store, issuers, secrets, issued, checkApproved, last>>

NextLive ==
    \/ \E r \in RequestNames : \E inp \in LiveInputs : Deliver(r, inp)
    \/ TickLive

\* A due invocation is made; status updates do not fail for ever.
SpecLive ==
    /\ InitLive
    /\ [][NextLive]_vars
    /\ \A r \in RequestNames :
        /\ WF_vars(\E inp \in LiveInputs : Deliver(r, inp))
        /\ SF_vars(\E inp \in LiveInputs : inp.upd = "ok" /\ Deliver(r, inp))

-----------------------------------------------------------------------------
(* Provisioner.Sign on requests of any duration.  The request asks for a   *)
(* whole number of days, below zero, zero, or up to beyond the longest      *)
(* validity; the step is one call of Sign with an answer of the signer.     *)

Durations == {<<24 * d>> : d \in (0 - DaysBelow)..MaxDays}

InitSign ==
    /\ store \in [RequestNames ->
                    {NewRequest("foobar", OwnGroup, "OriginIssuer", FALSE, TRUE, h) :
                        h \in Durations}]
    /\ issuers = [k \in IssuerKeys |-> IF Referenced(k) THEN ReadyIssuer(k) ELSE NoObject]
    /\ secrets = [k \in SecretKeys |->
                    IF Referenced(k) THEN [keys |-> {SecretKey}] ELSE NoObject]
    /\ now = 0
    /\ issued = {}
    /\ checkApproved = FALSE
    /\ last = NoCall

ApplySign(r, answer) ==
    /\ last' = [called |-> FALSE, req |-> r,
                sign |-> Sign(store[r], issuers[IssuerKey(store[r])[1]].requestType,
                              answer)]
    /\ UNCHANGED <<store, issuers, secrets, now, issued, checkApproved>>

NextSign == \E r \in RequestNames : \E answer \in Answers : ApplySign(r, answer)

SpecSign == InitSign /\ [][NextSign]_vars

\* Sign on requests of any duration in hours, whole days or not, and on
\* requests without duration.
HourDurations == {<<h>> : h \in (0 - HoursBelow)..MaxHours} \cup {NoDuration}

InitValidity ==
    /\ store \in [RequestNames ->
                    {NewRequest("foobar", OwnGroup, k, FALSE, TRUE, h) :
                        k \in {"OriginIssuer", "ClusterOriginIssuer"},
                        h \in HourDurations}]
    /\ issuers = [k \in IssuerKeys |-> IF Referenced(k) THEN ReadyIssuer(k) ELSE NoObject]
    /\ secrets = [k \in SecretKeys |->
                    IF Referenced(k) THEN [keys |-> {SecretKey}] ELSE NoObject]
    /\ now = 0
    /\ issued = {}
    /\ checkApproved = FALSE
    /\ last = NoCall

SpecValidity == InitValidity /\ [][NextSign]_vars

-----------------------------------------------------------------------------
(* Reconcile with an issuer of any request type.  The issuer a request      *)
(* names is ready and is of type OriginECC, of type OriginRSA, or has its    *)
(* request type left unset; the secret holds the key.                        *)

RequestTypes == {"OriginECC", "OriginRSA", ""}

InitType ==
    /\ store \in [RequestNames -> LiveRequests("foobar")]
    /\ \E rt \in RequestTypes :
        issuers = [k \in IssuerKeys |->
                    IF Referenced(k)
                    THEN [ReadyIssuer(k) EXCEPT !.requestType = rt]
                    ELSE NoObject]
    /\ secrets = [k \in SecretKeys |->
                    IF Referenced(k) THEN [keys |-> {SecretKey}] ELSE NoObject]
    /\ now = 0
    /\ issued = {}
    /\ checkApproved \in BOOLEAN
    /\ last = NoCall

SpecType == InitType /\ [][NextAny]_vars

-----------------------------------------------------------------------------
(* Reconcile of two requests.  Each names one of the two issuers, both      *)
(* ready, with their secrets; the invocations for the two requests come in  *)
(* any order.                                                                *)

TwoNames == {"foobar", "barfoo"}

TwoRequests(name) ==
    {[NewRequest(name, OwnGroup, k, FALSE, TRUE, NoDuration) EXCEPT
            !.conditions = <<Cond("Approved", "True", "cert-manager.io")>>] :
        k \in {"OriginIssuer", "ClusterOriginIssuer"}}

InitTwo ==
    /\ \E a \in TwoRequests("foobar") : \E b \in TwoRequests("barfoo") :
            store = [n \in TwoNames |-> IF n = "foobar" THEN a ELSE b]
    /\ issuers = [k \in IssuerKeys |-> IF Referenced(k) THEN ReadyIssuer(k) ELSE NoObject]
    /\ secrets = [k \in SecretKeys |->
                    IF Referenced(k) THEN [keys |-> {SecretKey}] ELSE NoObject]
    /\ now = 0
    /\ issued = {}
    /\ checkApproved = TRUE
    /\ last = NoCall

SpecTwo == InitTwo /\ [][NextAny]_vars

-----------------------------------------------------------------------------
(* SetIssuerStatusCondition on the status of one issuer.  The status starts *)
(* without conditions; a step is one call, with a condition type, a status, *)
(* a reason and message, and the current reading of the clock.              *)

ConditionTypes == {"Ready", "Synced", "Verified"}

ConditionStatuses == {"True", "False"}

\* reason and message of a call
Explanations == {<<"Verified", "verified and ready">>, <<"NotFound", "not found">>}

CondIssuer == <<"ClusterOriginIssuer", "", "foobar">>

InitCond ==
    /\ store = [r \in RequestNames |->
                    NewRequest(r, OwnGroup, "ClusterOriginIssuer", FALSE, TRUE, NoDuration)]
    /\ issuers = [k \in IssuerKeys |->
                    IF k = CondIssuer
                    THEN [conditions |-> <<>>, secretName |-> SecretName,
                          secretKey |-> SecretKey, requestType |-> RequestTypeOf(k)]
                    ELSE NoObject]
    /\ secrets = [k \in SecretKeys |-> NoObject]
    /\ now = 0
    /\ issued = {}
    /\ checkApproved = FALSE
    /\ last = NoCall

SetCondition(k, type, status, why) ==
    /\ issuers[k] # NoObject
    /\ issuers' = [issuers EXCEPT ![k].conditions =
                    SetIssuerStatusCondition(@, type, status, now, why[1], why[2])]
    /\ last' = [called |-> FALSE, key |-> k, before |-> issuers[k].conditions,
                type |-> type, status |-> status, reason |-> why[1],
                message |-> why[2], t |-> now]
    /\ UNCHANGED <<store, secrets, now, issued, checkApproved>>

NextCond ==
    \/ \E type \in ConditionTypes : \E status \in ConditionStatuses :
            \E why \in Explanations : SetCondition(CondIssuer, type, status, why)
    \/ TickLive

SpecCond == InitCond /\ [][NextCond]_vars

-----------------------------------------------------------------------------
(* ClusterOriginIssuerController.  One step is one whole invocation of its *)
(* Reconcile on the stored issuer: the spec is validated, the secret is     *)
(* read in ClusterResourceNamespace, the key is looked up, and the Ready    *)
(* condition of the issuer is set and sent to the store.  The verdict of    *)
(* the validation, the failure of the secret read and the answer of the     *)
(* store to the status update are inputs; the secrets are written and       *)
(* deleted by others.                                                        *)

\* setStatus of the issuer controller.
issuerSetStatus(iss, status, reason, message, t, upd) ==
    [iss |-> [iss EXCEPT !.conditions =
                SetIssuerStatusCondition(@, "Ready", status, t, reason, message)],
     err |-> IF upd = "ok" THEN "nil" ELSE "update"]

IssuerOut(iss, wrote, err, secRead) ==
    [iss |-> iss, wrote |-> wrote, err |-> err, secretRead |-> secRead]

ClusterIssuerReconcileOut_KeyUnchecked(iss, sec, t, inp) ==
    LET nn == <<ClusterResourceNamespace, iss.secretName>>
        st(reason, message) == issuerSetStatus(iss, "False", reason, message, t, inp.upd)
        ok == issuerSetStatus(iss, "True", "Verified",
                "ClusterOriginIssuer verified and ready to sign certificates", t, inp.upd)
    IN  IF ~inp.valid THEN IssuerOut(iss, FALSE, "invalid", <<>>)
        ELSE IF inp.secretErr
        THEN IssuerOut(st("Error", "Failed to retrieve auth secret").iss, TRUE,
                       "secret-error", <<nn>>)
        ELSE IF sec[nn] = NoObject
        THEN IssuerOut(st("NotFound", "Failed to retrieve auth secret").iss, TRUE,
                       "secret-notfound", <<nn>>)
        ELSE IssuerOut(ok.iss, TRUE, ok.err, <<nn>>)

ClusterIssuerReconcileOut(iss, sec, t, inp) ==
    LET nn == <<ClusterResourceNamespace, iss.secretName>>
        st(reason, message) == issuerSetStatus(iss, "False", reason, message, t, inp.upd)
        ok == issuerSetStatus(iss, "True", "Verified",
                "ClusterOriginIssuer verified and ready to sign certificates", t, inp.upd)
    IN  IF ~inp.valid THEN IssuerOut(iss, FALSE, "invalid", <<>>)
        ELSE IF inp.secretErr
        THEN IssuerOut(st("Error", "Failed to retrieve auth secret").iss, TRUE,
                       "secret-error", <<nn>>)
        ELSE IF sec[nn] = NoObject
        THEN IssuerOut(st("NotFound", "Failed to retrieve auth secret").iss, TRUE,
                       "secret-notfound", <<nn>>)
        ELSE IF iss.secretKey \notin sec[nn].keys
        THEN IssuerOut(st("NotFound", "Failed to retrieve auth secret").iss, TRUE,
                       "missing-key", <<nn>>)
        ELSE IssuerOut(ok.iss, TRUE, ok.err, <<nn>>)

IssuerInputs == [upd : {"ok", "fail"}, valid : BOOLEAN, secretErr : BOOLEAN]

ClusterIssuerReconcile(k) ==
    /\ issuers[k] # NoObject
    /\ \E inp \in IssuerInputs :
        \E out \in {ClusterIssuerReconcileOut(issuers[k], secrets, now, inp)} :
            LET persisted == out.wrote /\ inp.upd = "ok"
            IN  /\ issuers' = IF persisted THEN [issuers EXCEPT ![k] = out.iss]
                                           ELSE issuers
                /\ last' = [called |-> FALSE, key |-> k, pre |-> issuers[k],
                            post |-> out.iss, wrote |-> out.wrote,
                            persisted |-> persisted, err |-> out.err,
                            secretRead |-> out.secretRead, inp |-> inp]
    /\ UNCHANGED <<store, secrets, now, issued, checkApproved>>

\* The secrets of either namespace: written with or without the key, deleted.
WriteSecret(k) ==
    /\ \E ks \in {{}, {SecretKey}} :
        /\ secrets[k] # [keys |-> ks]
        /\ secrets' = [secrets EXCEPT ![k] = [keys |-> ks]]
    /\ last' = NoCall
    /\ UNCHANGED <<store, issuers, now, issued, checkApproved>>

NextIssuer ==
    \/ ClusterIssuerReconcile(CondIssuer)
    \/ \E k \in SecretKeys : WriteSecret(k)
    \/ \E k \in SecretKeys : DeleteSecret(k)
    \/ TickLive

SpecIssuer == InitCond /\ [][NextIssuer]_vars

-----------------------------------------------------------------------------
(* Properties.  last describes the invocation that has just returned: pre  *)
(* is the request as loaded, post the loaded copy at the return, and the   *)
(* store, the issuers and the secrets are as that invocation left them.    *)

\* The invocation did nothing: no signer call, no status update sent, no
\* error, the loaded copy and the stored object as they were.
LastIsNoOp ==
    /\ last.signerCalls = 0
    /\ ~last.wrote
    /\ last.err = "nil"
    /\ last.post = last.pre
    /\ store[last.req] = last.pre

HasReady(cr, status, reason) ==
    CertificateRequestHasCondition(cr, [type |-> "Ready", status |-> status,
                                        reason |-> reason])

ReadyConditions(cr) == {i \in 1..Len(cr.conditions) : cr.conditions[i].type = "Ready"}

\* The answers with which an invocation that reaches the signer gets a
\* certificate and stores it.
OkInput ==
    [upd |-> "ok", answer |-> [kind |-> "ok", cert |-> "bogus", code |-> 0],
     factory |-> "ok", secretErr |-> FALSE]

\* C1: a Reconcile of a request loaded with Ready=True asks no signer, sends
\* no status update, changes nothing in the status and returns no error,
\* whatever else the request holds.
C1_ReadyTrueIsIgnored ==
    (last.called /\ HasReady(last.pre, "True", "")) => LastIsNoOp

C1_Witness ==
    /\ last.called
    /\ HasReady(last.pre, "True", "")
    /\ CertificateRequestIsDenied(last.pre)
    /\ last.pre.isCA
    /\ last.pre.kind = "Issuer"
    /\ last.pre.group = OwnGroup
    /\ last.pre.certificate = ""

\* C2: over all the invocations for one request the signer issues at most one
\* certificate: no invocation gets a certificate from the signer for a
\* request the signer has already issued one for.
C2_SignedAtMostOnce ==
    last.called => ~last.signedAgain

\* C3: a stored certificate is never changed: an invocation that loads a
\* request with a certificate leaves that certificate in the loaded copy and
\* in the store.
C3_CertificateKept ==
    (last.called /\ last.pre.certificate # "") =>
        /\ last.post.certificate = last.pre.certificate
        /\ store[last.req].certificate = last.pre.certificate
        /\ last.signerCalls = 0

C3_Witness ==
    /\ last.called
    /\ last.pre.certificate # ""
    /\ ReadyConditions(last.pre) = {}
    /\ ~NotOurs(last.pre)
    /\ ~last.pre.isCA
    /\ last.step = 7

\* C4: Ready=False with reason Failed or Denied is absorbing: an invocation
\* that loads it does nothing, so the stored status stays; Ready=False with
\* another reason does not stop the invocation at the terminal checks.
C4_FailedAndDeniedAbsorb ==
    last.called =>
        /\ (HasReady(last.pre, "False", "Failed") \/ HasReady(last.pre, "False", "Denied"))
                => LastIsNoOp
        /\ (/\ HasReady(last.pre, "False", "")
            /\ ~HasReady(last.pre, "False", "Failed")
            /\ ~HasReady(last.pre, "False", "Denied"))
                => last.step \notin {2, 3, 4}

C4_Witness ==
    /\ last.called
    /\ HasReady(last.pre, "False", "Failed")
    /\ ~NotOurs(last.pre)
    /\ CertificateRequestIsDenied(last.pre)
    /\ last.step = 3

\* C5: when the signer answers with the API error of code 1100, Reconcile
\* returns an error, sends no status update and leaves conditions,
\* certificate and failure time as loaded; the next invocation asks the
\* signer again.
C5_DBWriteErrorLeavesStatus ==
    (last.called /\ last.answer # <<>> /\ last.answer[1].kind = "api"
        /\ last.answer[1].code = 1100) =>
        /\ last.err # "nil"
        /\ ~last.wrote
        /\ last.post = last.pre
        /\ store[last.req] = last.pre
        /\ ReconcileOut(store[last.req], checkApproved, issuers, secrets, now,
                        OkInput).signerCalls = 1

C5_Witness ==
    /\ last.called
    /\ last.answer # <<>>
    /\ last.answer[1].kind = "api"
    /\ last.answer[1].code = 1100
    /\ HasReady(last.pre, "False", "Pending")

\* The request goes all the way to the signer: it is ours, carries no
\* terminal condition, is not denied, is approved when that is asked for,
\* has no certificate and is not for a CA.
Eligible(cr, check) ==
    /\ cr.group \in {"", OwnGroup}
    /\ ~HasReady(cr, "True", "")
    /\ ~HasReady(cr, "False", "Failed")
    /\ ~HasReady(cr, "False", "Denied")
    /\ ~CertificateRequestIsDenied(cr)
    /\ (check => CertificateRequestIsApproved(cr))
    /\ cr.certificate = ""
    /\ ~cr.isCA

\* C6: when the signer returns certificate bytes c for an eligible request
\* with a ready issuer and its secret, Reconcile returns no error and the
\* stored request has exactly one Ready condition, True with reason Issued,
\* and certificate c.
C6_IssuedIsStored ==
    (last.called /\ Eligible(last.pre, checkApproved) /\ last.answer # <<>>
        /\ last.answer[1].kind = "ok") =>
        /\ last.err = "nil"
        /\ store[last.req].certificate = last.answer[1].cert
        /\ Cardinality(ReadyConditions(store[last.req])) = 1
        /\ HasReady(store[last.req], "True", "Issued")

\* The denied case: the request is ours, carries no terminal condition and
\* has been denied by the approval controller.
DeniedCase(cr) ==
    /\ cr.group \in {"", OwnGroup}
    /\ ~HasReady(cr, "True", "")
    /\ ~HasReady(cr, "False", "Failed")
    /\ ~HasReady(cr, "False", "Denied")
    /\ CertificateRequestIsDenied(cr)

C7_DeniedStep ==
    (last.called /\ DeniedCase(last.pre)) =>
        /\ last.step = 5
        /\ last.signerCalls = 0
        /\ last.issuerRead = <<>>
        /\ last.secretRead = <<>>
        /\ last.wrote
        /\ HasReady(last.post, "False", "Denied")
        /\ Cardinality(ReadyConditions(last.post)) = 1
        /\ last.post.failureTime =
                (IF last.pre.failureTime = <<>> THEN <<now>> ELSE last.pre.failureTime)
        /\ last.post.certificate = last.pre.certificate
        /\ IF last.persisted
           THEN last.err = "nil" /\ store[last.req] = last.post
           ELSE last.err = "update" /\ store[last.req] = last.pre

FailureTimeKept ==
    \A r \in DOMAIN store :
        store[r].failureTime # <<>> => store'[r].failureTime = store[r].failureTime

BothWays(r, inp) ==
    <<ReconcileOut(store[r], checkApproved, issuers, secrets, now,
                   [inp EXCEPT !.upd = "ok"]),
      ReconcileOut(store[r], checkApproved, issuers, secrets, now,
                   [inp EXCEPT !.upd = "fail"])>>

NamedIssuer(cr) ==
    IF cr.kind = "OriginIssuer"
    THEN <<"OriginIssuer", cr.namespace, cr.issuerName>>
    ELSE <<"ClusterOriginIssuer", "", cr.issuerName>>

IsReadyIssuer(k) ==
    /\ issuers[k] # NoObject
    /\ \E i \in 1..Len(issuers[k].conditions) :
        /\ issuers[k].conditions[i].type = "Ready"
        /\ issuers[k].conditions[i].status = "True"

\* C9: the signer is asked only when the issuer read in the same invocation
\* carries Ready=True; when the named issuer cannot be read or is not ready,
\* Reconcile sets Ready=False/Pending, returns an error, reads no secret and
\* asks no signer.  This holds of the issuer as it is at each invocation.
C9_SignsOnlyWithReadyIssuer ==
    last.called =>
        /\ last.signerCalls = 1 =>
            /\ last.issuerRead = <<NamedIssuer(last.pre)>>
            /\ IsReadyIssuer(NamedIssuer(last.pre))
        /\ (/\ Eligible(last.pre, checkApproved)
            /\ last.pre.kind \in {"OriginIssuer", "ClusterOriginIssuer"}
            /\ ~IsReadyIssuer(NamedIssuer(last.pre))) =>
            /\ last.step = 9
            /\ last.issuerRead = <<NamedIssuer(last.pre)>>
            /\ last.secretRead = <<>>
            /\ last.signerCalls = 0
            /\ last.err # "nil"
            /\ last.wrote
            /\ HasReady(last.post, "False", "Pending")
            /\ Cardinality(ReadyConditions(last.post)) = 1
            /\ last.post.certificate = last.pre.certificate
            /\ last.post.failureTime = last.pre.failureTime
            /\ store[last.req] = (IF last.persisted THEN last.post ELSE last.pre)

\* An issuer that was ready when the signer was asked before, and is not
\* ready now.
C9_Witness ==
    /\ last.called
    /\ last.req \in issued
    /\ last.pre.kind = "ClusterOriginIssuer"
    /\ issuers[NamedIssuer(last.pre)] # NoObject
    /\ ~IsReadyIssuer(NamedIssuer(last.pre))
    /\ secrets[<<ClusterResourceNamespace, SecretName>>] = [keys |-> {SecretKey}]
    /\ last.step = 9
    /\ last.persisted

\* C10: with approval gating on, the signer is not asked for a request
\* without the Approved condition; unless it is denied or terminal, such a
\* request is left as it is and Reconcile returns no error.
C10_UnapprovedIsLeftAlone ==
    (last.called /\ checkApproved /\ ~CertificateRequestIsApproved(last.pre)) =>
        /\ last.signerCalls = 0
        /\ (/\ ~CertificateRequestIsDenied(last.pre)
            /\ ~HasReady(last.pre, "True", "")
            /\ ~HasReady(last.pre, "False", "Failed")
            /\ ~HasReady(last.pre, "False", "Denied")) => LastIsNoOp

C10_Witness ==
    /\ last.called
    /\ checkApproved
    /\ ~CertificateRequestIsApproved(last.pre)
    /\ Eligible(last.pre, FALSE)
    /\ last.pre.csrOK
    /\ last.pre.kind = "OriginIssuer"
    /\ IsReadyIssuer(NamedIssuer(last.pre))
    /\ last.step = 6

\* C11: the credential is looked up where the issuer kind says.  For an
\* OriginIssuer reference the issuer is read by name in the namespace of the
\* request and the secret in that namespace; for a ClusterOriginIssuer
\* reference the issuer is read by name with no namespace and the secret in
\* ClusterResourceNamespace; no invocation reads anything else.
C11_SecretReadScopedByKind ==
    last.called =>
        LET cr == last.pre
            expIssuer ==
                CASE cr.kind = "OriginIssuer" ->
                        {<<"OriginIssuer", cr.namespace, cr.issuerName>>}
                  [] cr.kind = "ClusterOriginIssuer" ->
                        {<<"ClusterOriginIssuer", "", cr.issuerName>>}
                  [] OTHER -> {}
            expSecret ==
                CASE cr.kind = "OriginIssuer" ->
                        {<<cr.namespace, issuers[k].secretName>> : k \in expIssuer}
                  [] cr.kind = "ClusterOriginIssuer" ->
                        {<<ClusterResourceNamespace, issuers[k].secretName>> :
                            k \in expIssuer}
                  [] OTHER -> {}
        IN  /\ Len(last.issuerRead) <= 1
            /\ Len(last.secretRead) <= 1
            /\ \A i \in 1..Len(last.issuerRead) : last.issuerRead[i] \in expIssuer
            /\ \A i \in 1..Len(last.secretRead) :
                /\ last.issuerRead # <<>>
                /\ issuers[last.issuerRead[1]] # NoObject
                /\ last.secretRead[i] \in expSecret

C11_Witness ==
    /\ last.called
    /\ last.pre.kind = "ClusterOriginIssuer"
    /\ last.issuerRead = <<<<"ClusterOriginIssuer", "", "foobar">>>>
    /\ last.secretRead = <<<<ClusterResourceNamespace, SecretName>>>>
    /\ last.pre.namespace # ClusterResourceNamespace
    /\ last.signerCalls = 1

\* The errors Reconcile returns for a malformed CSR, an unknown issuer kind
\* and a signing error other than the database write failure.
TerminalErrors == {"decode", "unknown-kind", "api", "transport"}

\* The next invocation on the stored object returns at the check of the
\* Failed condition, whatever the collaborators would answer.
NextShortCircuits(r) ==
    \A inp \in Inputs :
        ReconcileOut(store[r], checkApproved, issuers, secrets, now, inp)
            = NoOp(3, store[r])

\* C12 (as stated): whenever Reconcile returns a terminal error, the stored
\* request carries Ready=False by then, and the next invocation on the stored
\* object returns at the terminal checks without another attempt.
C12_TerminalErrorIsDurable ==
    (last.called /\ last.err \in TerminalErrors) =>
        /\ HasReady(store[last.req], "False", "")
        /\ NextShortCircuits(last.req)

\* C12 (amended): whenever Reconcile returns a terminal error, it has set
\* Ready=False/Failed on the request and sent the status update.  When the
\* update is stored the next invocation returns at the terminal check; when
\* it is not, the stored request is as it was loaded, without the condition.
C12_TerminalErrorIsRecordedWhenStored ==
    (last.called /\ last.err \in TerminalErrors) =>
        /\ last.wrote
        /\ HasReady(last.post, "False", "Failed")
        /\ Cardinality(ReadyConditions(last.post)) = 1
        /\ last.persisted =>
                /\ store[last.req] = last.post
                /\ NextShortCircuits(last.req)
        /\ ~last.persisted =>
                /\ store[last.req] = last.pre
                /\ ~HasReady(store[last.req], "False", "Failed")

C12_Witness ==
    /\ last.called
    /\ last.err = "api"
    /\ last.persisted
    /\ HasReady(store[last.req], "False", "Failed")

\* C13: with Reconcile invoked again after every invocation that returned an
\* error, for a request that is approved, not denied, not a CA request, with
\* a ready issuer, the secret and key present and a signer that answers with
\* a certificate, the stored request eventually carries Ready=True/Issued and
\* a certificate, status updates failing some of the time.
C13_EventuallyIssued ==
    <>(\A r \in RequestNames :
            /\ HasReady(store[r], "True", "Issued")
            /\ store[r].certificate # "")

\* C14: for the days d a request asks for, closest(d, allowedValidty) is a
\* member of the list, no member is nearer to d, and of the members as near
\* it is the first in list order (0 gives 7, 18 gives 7, 60 gives 30, 3285
\* gives 1095); it is the validity of the request sent to the signer.
C14_ClosestIsNearestFirstOnTies ==
    \A r \in DOMAIN store :
        LET d == DaysOf(store[r].duration[1])
            v == closest(d, allowedValidty)
            n == Len(allowedValidty)
            at == {i \in 1..n : allowedValidty[i] = v}
        IN  /\ at # {}
            /\ \A j \in 1..n : Abs(v - d) <= Abs(allowedValidty[j] - d)
            /\ \A j \in 1..n :
                Abs(allowedValidty[j] - d) = Abs(v - d) => \E i \in at : i <= j
            /\ d = 0 => v = 7
            /\ d = 18 => v = 7
            /\ d = 60 => v = 30
            /\ d = 3285 => v = 1095
            /\ (last # NoCall /\ last.sign.calls = 1) =>
                    last.sign.request[1].validity = v

C14_Witness ==
    /\ last # NoCall
    /\ last.sign.calls = 1
    /\ DaysOf(store[last.req].duration[1]) = 3285
    /\ last.sign.request[1].validity = 1095

\* The call last describes: the list before and after it, and where the
\* condition of its type stood and stands.
CondBefore == last.before

CondAfter == issuers[last.key].conditions

IndexOf(conds, type) == {i \in 1..Len(conds) : conds[i].type = type}

\* C15: a call of SetIssuerStatusCondition stamps the condition of its type
\* with the clock exactly when the condition is new or its status changes
\* (so, the clock having moved on, the timestamp changes if and only if the
\* status does); with the status already recorded the reason and message are
\* replaced and the timestamp is kept; and a call with the type, status,
\* reason and message the list already holds leaves the list as it is, at
\* whatever later reading of the clock.
C15_TransitionTimeFollowsStatus ==
    last # NoCall =>
        \A j \in IndexOf(CondAfter, last.type) :
            LET c == CondAfter[j]
                was == IndexOf(CondBefore, last.type)
            IN  /\ c.status = last.status
                /\ c.reason = last.reason
                /\ c.message = last.message
                /\ was = {} => c.lastTransitionTime = last.t
                /\ \A i \in was :
                    LET b == CondBefore[i]
                    IN  /\ b.status # last.status => c.lastTransitionTime = last.t
                        /\ b.status = last.status =>
                                c.lastTransitionTime = b.lastTransitionTime
                        /\ last.t > b.lastTransitionTime =>
                                (c.lastTransitionTime # b.lastTransitionTime
                                    <=> b.status # last.status)
                        /\ (b.status = last.status /\ b.reason = last.reason
                                /\ b.message = last.message) =>
                                CondAfter = CondBefore

\* the same call made again at a later reading of the clock
C15_Witness ==
    /\ last # NoCall
    /\ \E i \in IndexOf(CondBefore, last.type) :
        /\ CondBefore[i].status = last.status
        /\ CondBefore[i].reason = last.reason
        /\ CondBefore[i].lastTransitionTime < last.t
        /\ CondAfter[i].lastTransitionTime < last.t
    /\ Len(CondBefore) > 1

\* C16: from the empty list, whatever calls of SetIssuerStatusCondition are
\* made, the list holds at most one condition of each type; a call for a
\* type the list does not hold appends its condition at the end, a call for
\* a type it holds replaces that condition where it stands; the conditions
\* of the other types and their order are as before.
C16_OneConditionPerType ==
    /\ \A k \in IssuerKeys :
        issuers[k] # NoObject =>
            \A i, j \in 1..Len(issuers[k].conditions) :
                i # j => issuers[k].conditions[i].type # issuers[k].conditions[j].type
    /\ last # NoCall =>
        IF IndexOf(CondBefore, last.type) = {}
        THEN /\ Len(CondAfter) = Len(CondBefore) + 1
             /\ SubSeq(CondAfter, 1, Len(CondBefore)) = CondBefore
             /\ CondAfter[Len(CondAfter)].type = last.type
        ELSE /\ Len(CondAfter) = Len(CondBefore)
             /\ \A i \in 1..Len(CondBefore) :
                    /\ CondAfter[i].type = CondBefore[i].type
                    /\ CondBefore[i].type # last.type => CondAfter[i] = CondBefore[i]

\* the condition in the middle of three is replaced where it stands
C16_Witness ==
    /\ last # NoCall
    /\ Len(CondBefore) = 3
    /\ CondBefore[2].type = last.type
    /\ CondAfter[2] # CondBefore[2]
    /\ CondAfter[1] = CondBefore[1]
    /\ CondAfter[3] = CondBefore[3]

\* The invocation of the issuer controller last describes.
IssuerCall == last # NoCall /\ last.key = CondIssuer

\* The secret the issuer refers to is in ClusterResourceNamespace and holds
\* the key.
ClusterSecretHasKey ==
    /\ secrets[<<ClusterResourceNamespace, SecretName>>] # NoObject
    /\ SecretKey \in secrets[<<ClusterResourceNamespace, SecretName>>].keys

IssuerHasReady(iss, status, reason) ==
    \E i \in 1..Len(iss.conditions) :
        /\ iss.conditions[i].type = "Ready"
        /\ iss.conditions[i].status = status
        /\ iss.conditions[i].reason = reason

\* the Ready condition's status and transition time are those of before
ReadyKept ==
    \A i \in 1..Len(last.pre.conditions) :
        last.pre.conditions[i].type = "Ready" =>
            /\ last.post.conditions[i].status = last.pre.conditions[i].status
            /\ last.post.conditions[i].lastTransitionTime
                    = last.pre.conditions[i].lastTransitionTime

\* C17 (as stated, for an issuer that passes validation): Reconcile marks the
\* issuer Ready=True/Verified if and only if the secret is in
\* ClusterResourceNamespace and holds the key; a secret reported not found or
\* without the key gives Ready=False/NotFound and an error; a Reconcile of an
\* issuer already verified, the secret being as it was, keeps the Ready
\* condition's status and transition time.
C17_VerifiedIffSecretAndKey ==
    (IssuerCall /\ last.inp.valid) =>
        /\ IssuerHasReady(last.post, "True", "Verified") <=> ClusterSecretHasKey
        /\ (~ClusterSecretHasKey /\ ~last.inp.secretErr) =>
                (IssuerHasReady(last.post, "False", "NotFound") /\ last.err # "nil")
        /\ (ClusterSecretHasKey /\ IssuerHasReady(last.pre, "True", "Verified")) =>
                ReadyKept

\* C17 (amended): for an issuer that passes validation, Reconcile marks the
\* issuer Ready=True/Verified if and only if the read of the secret in
\* ClusterResourceNamespace succeeds and the secret holds the key; a secret
\* not found or without the key gives Ready=False/NotFound and an error; a
\* read failing otherwise gives Ready=False/Error and an error, whatever the
\* secret holds; a Reconcile of an issuer already verified, with the secret
\* read and holding the key, keeps the Ready condition's status and
\* transition time.  An issuer that fails validation gets an error and no
\* status.  The status is stored when the update succeeds, and the update's
\* error is returned on the verified path only.
C17_VerifiedIffSecretReadWithKey ==
    IssuerCall =>
        /\ last.inp.valid =>
            /\ last.wrote
            /\ last.secretRead = <<<<ClusterResourceNamespace, SecretName>>>>
            /\ IssuerHasReady(last.post, "True", "Verified")
                    <=> (ClusterSecretHasKey /\ ~last.inp.secretErr)
            /\ (~ClusterSecretHasKey /\ ~last.inp.secretErr) =>
                    (IssuerHasReady(last.post, "False", "NotFound") /\ last.err # "nil")
            /\ last.inp.secretErr =>
                    (IssuerHasReady(last.post, "False", "Error") /\ last.err # "nil")
            /\ (ClusterSecretHasKey /\ ~last.inp.secretErr
                    /\ IssuerHasReady(last.pre, "True", "Verified")) => ReadyKept
            /\ (ClusterSecretHasKey /\ ~last.inp.secretErr) =>
                    (last.err = "nil" <=> last.persisted)
        /\ ~last.inp.valid =>
            (~last.wrote /\ last.post = last.pre /\ last.err # "nil")
        /\ issuers[last.key] = IF last.persisted THEN last.post ELSE last.pre
        /\ Cardinality({i \in 1..Len(last.post.conditions) :
                            last.post.conditions[i].type = "Ready"}) <= 1

\* a verified issuer is reconciled again at a later time, the secret in place
C17_Witness ==
    /\ IssuerCall
    /\ last.inp.valid
    /\ ~last.inp.secretErr
    /\ ClusterSecretHasKey
    /\ IssuerHasReady(last.pre, "True", "Verified")
    /\ last.persisted
    /\ \E i \in 1..Len(last.post.conditions) :
            last.post.conditions[i].lastTransitionTime < now
    /\ secrets[<<RequestNamespace, SecretName>>] = NoObject

\* The invocation last describes ended with a failure of Sign.
SignFailed == last.called /\ last.step = 11 /\ last.err # "factory"

\* The signer answered with the structured error of the database write
\* failure.
AnsweredDBWriteError ==
    /\ last.answer # <<>>
    /\ last.answer[1].kind = "api"
    /\ last.answer[1].code = 1100

\* The stored request r is not handed to the signer by the next invocation,
\* whatever the collaborators would answer.
NotSubmittedNext(r) ==
    \A inp \in Inputs :
        ReconcileOut(store[r], checkApproved, issuers, secrets, now, inp).signerCalls = 0

\* C18 (as stated): a failure of Sign is retried if and only if it is the
\* API error with code 1100; any other (another code, a transport error, a
\* CSR that does not decode) sets Ready=False/Failed, returns the error, and
\* the request is not handed to the signer again.
C18_OnlyDBWriteErrorIsRetried ==
    SignFailed =>
        /\ last.err # "nil"
        /\ AnsweredDBWriteError => (~last.wrote /\ store[last.req] = last.pre)
        /\ ~AnsweredDBWriteError =>
            /\ HasReady(last.post, "False", "Failed")
            /\ NotSubmittedNext(last.req)

C18_FailureRecorded ==
    SignFailed =>
        /\ last.err # "nil"
        /\ AnsweredDBWriteError =>
            (~last.wrote /\ last.post = last.pre /\ store[last.req] = last.pre)
        /\ ~AnsweredDBWriteError =>
            /\ last.wrote
            /\ HasReady(last.post, "False", "Failed")
            /\ last.persisted =>
                (store[last.req] = last.post /\ NotSubmittedNext(last.req))
            /\ ~last.persisted => store[last.req] = last.pre

FailedStaysUnsigned ==
    \A r \in DOMAIN store :
        HasReady(store[r], "False", "Failed") =>
            /\ HasReady(store'[r], "False", "Failed")
            /\ IF last'.called THEN last'.signerCalls = 0 ELSE TRUE

\* C18 (amended): a failure of Sign is retried if and only if it is the API
\* error with code 1100 (nothing is written); any other sets
\* Ready=False/Failed and returns the error.  When that status is stored the
\* request is never handed to the signer again; when the update fails the
\* stored request is as it was loaded, and the next invocation tries again.
C18_OnlyDBWriteErrorIsRetriedOnceStored ==
    []C18_FailureRecorded /\ [][FailedStaysUnsigned]_vars

C18_Witness ==
    /\ SignFailed
    /\ last.err = "transport"
    /\ last.signerCalls = 1
    /\ last.persisted
    /\ HasReady(store[last.req], "False", "Failed")

\* The request names an issuer kind the controller does not know, and
\* nothing before the issuer switch of Reconcile ends the invocation.
UnknownKindCase ==
    /\ last.called
    /\ last.pre.kind \notin {"OriginIssuer", "ClusterOriginIssuer"}
    /\ Eligible(last.pre, checkApproved)

UnknownKindFailed ==
    /\ HasReady(last.post, "False", "Failed")
    /\ last.err # "nil"
    /\ last.issuerRead = <<>>
    /\ last.secretRead = <<>>
    /\ last.signerCalls = 0

\* C19 (as stated): a request of an unknown issuer kind gets
\* Ready=False/Failed and an error, no issuer or secret is read and the
\* signer is not asked; the next invocation on the stored object does
\* nothing.
C19_UnknownKindFailsOnce ==
    UnknownKindCase =>
        /\ UnknownKindFailed
        /\ NextShortCircuits(last.req)

\* C19 (amended): a request of an unknown issuer kind that reaches the issuer
\* switch gets Ready=False/Failed and an error, no issuer or secret is read
\* and the signer is not asked.  When the status is stored the next
\* invocation on the stored object does nothing; when the update fails the
\* stored request is as it was loaded and the next invocation does the same
\* again.
C19_UnknownKindFailsOnceStored ==
    UnknownKindCase =>
        /\ UnknownKindFailed
        /\ last.step = 9
        /\ last.wrote
        /\ last.persisted =>
            (store[last.req] = last.post /\ NextShortCircuits(last.req))
        /\ ~last.persisted =>
            /\ store[last.req] = last.pre
            /\ \A inp \in Inputs :
                LET again == ReconcileOut(store[last.req], checkApproved, issuers,
                                          secrets, now, inp)
                IN  again.step = 9 /\ again.wrote /\ again.err = last.err

\* the invocation after the stored failure
C19_Witness ==
    /\ last.called
    /\ last.pre.kind = "Issuer"
    /\ HasReady(last.pre, "False", "Failed")
    /\ last.step = 3
    /\ LastIsNoOp
    /\ ~CertificateRequestIsDenied(last.pre)
    /\ ~last.pre.isCA

\* The secret a request's issuer refers to, in the namespace of its kind.
NamedSecret(cr) ==
    <<IF cr.kind = "OriginIssuer" THEN cr.namespace ELSE ClusterResourceNamespace,
      issuers[NamedIssuer(cr)].secretName>>

\* The invocation last describes came to read the secret: nothing before
\* the issuer switch ended it, and the issuer it names is ready.
SecretCase ==
    /\ last.called
    /\ Eligible(last.pre, checkApproved)
    /\ last.pre.kind \in {"OriginIssuer", "ClusterOriginIssuer"}
    /\ IsReadyIssuer(NamedIssuer(last.pre))

SecretLacksKey(nn) == secrets[nn] = NoObject \/ SecretKey \notin secrets[nn].keys

\* The stored request, reconciled with the secret and its key in place and
\* collaborators that answer, comes to Sign (a secret is read, no Ready=False
\* for the secret is set), and with a CSR that decodes it is handed to the
\* signer and becomes Ready=True.
IssuedOnceSecretExists(r, nn) ==
    LET sec == [secrets EXCEPT ![nn] = [keys |-> {SecretKey}]]
        out == ReconcileOut(store[r], checkApproved, issuers, sec, now, OkInput)
    IN  /\ out.step \in {11, 12}
        /\ out.secretRead = <<nn>>
        /\ out.err \in {"nil", "decode"}
        /\ store[r].csrOK =>
            /\ out.step = 12
            /\ out.signerCalls = 1
            /\ HasReady(out.cr, "True", "Issued")
            /\ out.cr.certificate = OkInput.answer.cert

\* C20: when the secret is not found or lacks the key Reconcile sets
\* Ready=False with reason NotFound (Error when the read fails otherwise),
\* returns an error and does not ask the signer; the request is not terminal
\* by that: reconciled again with the secret and key in place it is signed
\* and becomes Ready=True.
C20_MissingSecretIsNotTerminal ==
    SecretCase =>
        LET nn == NamedSecret(last.pre)
            failed == last.err \in {"secret-error", "secret-notfound", "missing-key"}
        IN  /\ SecretLacksKey(nn) => failed
            /\ last.err = "secret-notfound" <=>
                    (secrets[nn] = NoObject /\ last.err # "secret-error")
            /\ last.err = "missing-key" <=>
                    (secrets[nn] # NoObject /\ SecretLacksKey(nn)
                        /\ last.err # "secret-error")
            /\ failed =>
                /\ last.step = 10
                /\ last.wrote
                /\ last.signerCalls = 0
                /\ Cardinality(ReadyConditions(last.post)) = 1
                /\ HasReady(last.post, "False",
                            IF last.err = "secret-error" THEN "Error" ELSE "NotFound")
                /\ store[last.req] = IF last.persisted THEN last.post ELSE last.pre
                /\ IssuedOnceSecretExists(last.req, nn)

\* a request stored with NotFound is signed by a later invocation
C20_Witness ==
    /\ last.called
    /\ HasReady(last.pre, "False", "NotFound")
    /\ last.step = 12
    /\ last.signerCalls = 1
    /\ last.persisted
    /\ HasReady(store[last.req], "True", "Issued")

\* C21: the group check comes first.  A request whose issuer reference names
\* another group (not empty, not this controller's) is left as it is: no
\* status update, no read, no signer call, no error, be it denied, not
\* approved or of an unknown issuer kind.  A request with an empty group is
\* not stopped at that check.  A CA request that nothing earlier stops is
\* left as it is, with no error and no signer call.
C21_ForeignGroupAndCAUntouched ==
    last.called =>
        /\ last.step = 1 <=> last.pre.group \notin {"", OwnGroup}
        /\ last.pre.group \notin {"", OwnGroup} =>
            /\ LastIsNoOp
            /\ last.issuerRead = <<>>
            /\ last.secretRead = <<>>
        /\ last.step = 8 =>
            /\ last.pre.isCA
            /\ LastIsNoOp
            /\ last.issuerRead = <<>>
            /\ last.secretRead = <<>>
        /\ last.step = 8 <=>
            (last.pre.isCA /\ Eligible([last.pre EXCEPT !.isCA = FALSE], checkApproved))

\* a denied request of a foreign group and unknown kind, left alone
C21_Witness ==
    /\ last.called
    /\ last.pre.group = "cert-manager.io"
    /\ CertificateRequestIsDenied(last.pre)
    /\ ~CertificateRequestIsApproved(last.pre)
    /\ last.pre.kind = "Issuer"
    /\ ~HasReady(last.pre, "False", "")
    /\ ~HasReady(last.pre, "True", "")
    /\ last.step = 1
    /\ checkApproved

\* The invocation last describes came to Sign: nothing before the issuer
\* switch ended it, the issuer is ready, the secret holds the key, the read
\* of the secret and the credential factory did not fail.
SignCase ==
    /\ SecretCase
    /\ ~SecretLacksKey(NamedSecret(last.pre))
    /\ last.err \notin {"secret-error", "factory"}

\* C22: one invocation asks the signer at most once, and not at all for a
\* CSR that does not decode; such a request, when the invocation comes to
\* Sign, gets Ready=False/Failed and the error is returned.
C22_SignerAskedAtMostOncePerInvocation ==
    last.called =>
        /\ last.signerCalls \in {0, 1}
        /\ Len(last.signRequest) = last.signerCalls
        /\ Len(last.answer) = last.signerCalls
        /\ ~last.pre.csrOK => last.signerCalls = 0
        /\ (SignCase /\ ~last.pre.csrOK) =>
            /\ last.step = 11
            /\ last.err = "decode"
            /\ last.wrote
            /\ HasReady(last.post, "False", "Failed")
            /\ Cardinality(ReadyConditions(last.post)) = 1
        /\ (SignCase /\ last.pre.csrOK) => last.signerCalls = 1

C22_Witness ==
    /\ SignCase
    /\ ~last.pre.csrOK
    /\ last.err = "decode"
    /\ last.signerCalls = 0
    /\ last.persisted
    /\ HasReady(store[last.req], "False", "Failed")

\* C23: the validity of every request sent to the signer is one of 7, 30,
\* 90, 365, 730, 1095, 5475: 7 for a request without duration, and otherwise
\* closest of the requested hours cut to whole days (toward zero), so 7 for
\* a duration of zero or less.
C23_ValidityIsAllowed ==
    (last # NoCall /\ last.sign.calls = 1) =>
        LET cr == store[last.req]
            v == last.sign.request[1].validity
        IN  /\ v \in {7, 30, 90, 365, 730, 1095, 5475}
            /\ cr.duration = NoDuration => v = 7
            /\ cr.duration # NoDuration =>
                LET h == cr.duration[1]
                    d == IF h >= 0 THEN h \div 24 ELSE 0 - ((0 - h) \div 24)
                IN  /\ v = closest(d, allowedValidty)
                    /\ \A i \in 1..Len(allowedValidty) :
                            Abs(v - d) <= Abs(allowedValidty[i] - d)
                    /\ h <= 0 => v = 7
                    /\ (h >= 18 * 24 /\ h < 19 * 24) => v = 7
                    /\ (h >= 19 * 24 /\ h <= 60 * 24 + 23) => v = 30

\* eighteen days and twenty-three hours are eighteen days
C23_Witness ==
    /\ last # NoCall
    /\ last.sign.calls = 1
    /\ store[last.req].duration = <<18 * 24 + 23>>
    /\ last.sign.request[1].validity = 7

\* C24: every request sent to the signer carries the type tag origin-ecc or
\* origin-rsa, whatever the request type of the ready issuer, unset
\* included.
C24_TypeTagIsAccepted ==
    (last.called /\ last.signerCalls = 1) =>
        last.signRequest[1].type \in {"origin-ecc", "origin-rsa"}

\* What a Reconcile of the stored request a, alone, may leave in the store:
\* the request as it is, or as an invocation with some answers of the
\* collaborators sets it.
AloneOutcome(a, cr) ==
    \/ cr = store[a]
    \/ \E inp \in Inputs :
            ReconcileOut(store[a], checkApproved, issuers, secrets, now, inp).cr = cr

ReconcileTouchesOwnRequestOnly ==
    \A a \in TwoNames :
        (last'.called /\ last'.req = a) =>
            /\ \A b \in TwoNames \ {a} : store'[b] = store[b]
            /\ issuers' = issuers
            /\ secrets' = secrets
            /\ AloneOutcome(a, store'[a])
            /\ last'.pre = store[a]

C26_CertificateOnlyWithIssued ==
    \A r \in DOMAIN store :
        store[r].certificate # "" =>
            /\ HasReady(store[r], "True", "Issued")
            /\ Cardinality(ReadyConditions(store[r])) = 1
            /\ store[r].certificate \in Certs
            /\ r \in issued

\* a certificate stored by an invocation that found Ready=False before
C26_Witness ==
    /\ last.called
    /\ last.step = 12
    /\ last.persisted
    /\ HasReady(last.pre, "False", "")
    /\ last.pre.certificate = ""
    /\ store[last.req].certificate # ""
    /\ HasReady(store[last.req], "True", "Issued")

\* C27: when the credential factory fails, Reconcile returns the error
\* without asking the signer and without setting or sending any status: the
\* stored request is as it was, and an invocation on it with a factory that
\* works goes the whole way again, to the signer.
C27_FactoryFailureLeavesStatus ==
    (last.called /\ last.err = "factory") =>
        /\ SecretCase
        /\ ~SecretLacksKey(NamedSecret(last.pre))
        /\ last.secretRead = <<NamedSecret(last.pre)>>
        /\ last.signerCalls = 0
        /\ ~last.wrote
        /\ last.post = last.pre
        /\ store[last.req] = last.pre
        /\ \E out \in {ReconcileOut(store[last.req], checkApproved, issuers, secrets,
                                    now, OkInput)} :
            /\ out.step \in {11, 12}
            /\ out.err \in {"nil", "decode"}
            /\ store[last.req].csrOK =>
                (out.step = 12 /\ out.signerCalls = 1
                    /\ HasReady(out.cr, "True", "Issued"))

C27_Witness ==
    /\ last.called
    /\ last.err = "factory"
    /\ last.pre.csrOK
    /\ last.pre.kind = "ClusterOriginIssuer"
    /\ ~last.wrote
    /\ store[last.req].conditions = last.pre.conditions

====
